---- MODULE Spec2Model ----
(***************************************************************************)
(* Quiz attempt lifecycle of ICT-QUIZ: the student-facing QuizPlay screen  *)
(* (loadQuiz, handleAnswer, nextQuestion, saveAnswer, the countdown timer, *)
(* handleTimeUp, finishQuiz), the teacher's updateQuiz and loadResults,    *)
(* and the database function calculate_quiz_rankings, over the tables      *)
(* quiz_sessions, quiz_session_groups, students, questions, quiz_attempts  *)
(* and student_answers.  Further parts, each with a specification of its   *)
(* own: the QuizEdit component (editing questions and groups, saveQuiz),   *)
(* the Quizzes page (createQuiz), the code triggers of students and        *)
(* quiz_sessions, and the row-level-security policies of quiz_sessions and *)
(* quiz_attempts.                                                          *)
(*                                                                         *)
(* Granularity.  An async handler is cut at its database calls: each       *)
(* action is one database call together with the synchronous code that     *)
(* runs up to the next call.  Other browser sessions, the teacher and the  *)
(* clock interleave between the calls of a handler.  Within one browser    *)
(* session no click and no timer tick is taken while a handler of that     *)
(* session is in flight.  A handler works on the values of the render it   *)
(* was created in (field h): the Next button on those of the latest        *)
(* render, the interval callback on those of the render in which the timer *)
(* effect last ran (field timer), that is the render after the load or     *)
(* after the last change of timeRemaining.                                 *)
(***************************************************************************)
EXTENDS Integers, Sequences, FiniteSets, Bags, TLC

\* ------------------------------------------------------------------ bounds
MaxTime == 1
QuizDuration == 1
MaxGranted == QuizDuration + 1
MaxEditorQuestions == 1
MaxRows == 2

\* --------------------------------------------------------------- constants
NULL == -1
DefaultDuration == 1800
TopRanks == 3

Sessions == {"B1", "B2"}
Groups == {"G1", "G2"}
Quizzes == {"Z1"}

\* students table (static): S1, S2 use the browser sessions, S3..S5 have
\* taken the quiz earlier.
students ==
  [x \in {"S1", "S2", "S3", "S4", "S5"} |->
     [student_code |-> CASE x = "S1" -> "C1" [] x = "S2" -> "C2" [] x = "S3" -> "C3"
                         [] x = "S4" -> "C4" [] OTHER -> "C5",
      group_id |-> IF x = "S2" THEN "G2" ELSE "G1"]]

\* the URL parameters a browser session may be opened with
AccessCodeInputs == {"AZ1", "BAD"}
StudentCodeInputs == [s \in Sessions |-> IF s = "B1" THEN {"", "C1", "C2", "BAD"}
                                        ELSE {"C1"}]

\* questions with their answers, as select('*, answers(*)').order('order_index')
QuizQuestions ==
  << [id |-> "q1", question_text |-> "t", question_type |-> "single",
      order_index |-> 0,
      answers |-> << [id |-> "a1", answer_text |-> "x", is_correct |-> TRUE,
                      order_index |-> 0],
                     [id |-> "a2", answer_text |-> "x", is_correct |-> FALSE,
                      order_index |-> 1] >>],
     [id |-> "q2", question_text |-> "t", question_type |-> "multiple",
      order_index |-> 1,
      answers |-> << [id |-> "b1", answer_text |-> "x", is_correct |-> TRUE,
                      order_index |-> 0],
                     [id |-> "b2", answer_text |-> "x", is_correct |-> FALSE,
                      order_index |-> 1] >>] >>

\* .order('order_index'): the rows in the orders the database may return
\* them, rows with equal order_index in any order
OrderedBy(rows) ==
  IF rows = << >> THEN {<< >>}
  ELSE {[k \in DOMAIN rows |-> rows[p[k]]] :
          p \in {f \in Permutations(DOMAIN rows) :
                   \A a, b \in DOMAIN rows :
                     a < b => rows[f[a]].order_index <= rows[f[b]].order_index}}

\* Array.prototype.sort((a, b) => a.order_index - b.order_index)
RECURSIVE SortByOrderIndex(_)
SortByOrderIndex(rows) ==
  IF rows = << >> THEN << >>
  ELSE LET least == CHOOSE k \in DOMAIN rows :
                      /\ \A m \in DOMAIN rows : rows[k].order_index <= rows[m].order_index
                      /\ \A m \in 1..(k - 1) : rows[m].order_index > rows[k].order_index
           rest == [m \in 1..(Len(rows) - 1) |->
                      IF m < least THEN rows[m] ELSE rows[m + 1]]
       IN << rows[least] >> \o SortByOrderIndex(rest)

VARIABLES
  now,
  quiz_sessions,
  quiz_session_groups,
  questions,
  quiz_attempts,
  student_answers,
  sess,
  results_pc,
  granted,
  editor,
  quizzes_page,
  codes,
  rls

\* now                 the wall clock, NOW() / new Date()
\* quiz_sessions       table: quiz id -> row
\* quiz_session_groups table: set of <<quiz_session_id, group_id>>
\* questions           table: quiz id -> ordered questions with answers
\* quiz_attempts       table: sequence of rows, the id of a row is its index
\* student_answers     table: bag of rows (no key besides the row id)
\* sess                browser session -> state of the QuizPlay component
\* results_pc          position of the teacher's loadResults
\* granted             attempt id -> countdown seconds the sessions on the
\*                     attempt have counted down so far (history)
\* editor              state of the QuizEdit component
\* quizzes_page        state of the Quizzes page (createQuiz)
\* codes               the code columns of students and quiz_sessions with the
\*                     inserts in flight
\* rls                 quiz sessions and attempts with their owners, the
\*                     signed-in user and the rows of the last SELECT
others == << editor, quizzes_page, codes, rls >>

vars == << now, quiz_sessions, quiz_session_groups, questions, quiz_attempts,
           student_answers, sess, results_pc, granted, others >>

\* ------------------------------------------------------------- helpers
Range(f) == {f[i] : i \in DOMAIN f}

Max(a, b) == IF a >= b THEN a ELSE b

Min(a, b) == IF a <= b THEN a ELSE b

BagSize(B) == BagCardinality(B)

\* every order in which the rows of bag B may be returned by a SELECT without
\* ORDER BY: the sequences whose elements, with multiplicity, are B
SeqsOfBag(B) ==
  LET n == BagSize(B)
      S == BagToSet(B)
  IN {sq \in [1..n -> S] :
        \A x \in S : Cardinality({i \in 1..n : sq[i] = x}) = CopiesIn(x, B)}

\* ---------------------------------------------------------------- rows
NoQuiz == [id |-> "none", access_code |-> "", group_id |-> "none",
           deadline |-> NULL, duration_seconds |-> NULL]

\* the component state quiz: of the row setQuiz stores, id and
\* duration_seconds are the fields read afterwards
QuizState(quizData) ==
  [id |-> quizData.id, duration_seconds |-> quizData.duration_seconds]

\* the component state attempt: of the row setAttempt stores, id is the field
\* read afterwards; id 0 stands for null
AttemptState(attemptData) == [id |-> attemptData.id]

QuizRow(z) == [id |-> z, access_code |-> quiz_sessions[z].access_code,
               group_id |-> quiz_sessions[z].group_id,
               deadline |-> quiz_sessions[z].deadline,
               duration_seconds |-> quiz_sessions[z].duration_seconds]

NoAttempt == [id |-> 0, quiz_session_id |-> "none", student_id |-> "none",
              started_at |-> NULL, completed_at |-> NULL, score |-> NULL,
              total_questions |-> NULL, time_taken_seconds |-> NULL,
              ranking |-> NULL]

AttemptRow(i) == [id |-> i,
                  quiz_session_id |-> quiz_attempts[i].quiz_session_id,
                  student_id |-> quiz_attempts[i].student_id,
                  started_at |-> quiz_attempts[i].started_at,
                  completed_at |-> quiz_attempts[i].completed_at,
                  score |-> quiz_attempts[i].score,
                  total_questions |-> quiz_attempts[i].total_questions,
                  time_taken_seconds |-> quiz_attempts[i].time_taken_seconds,
                  ranking |-> quiz_attempts[i].ranking]

AttemptIds == DOMAIN quiz_attempts

\* .maybeSingle(): the row when exactly one matches, otherwise no data
MaybeSingleQuiz(accessCode) ==
  LET m == {z \in Quizzes : quiz_sessions[z].access_code = accessCode}
  IN IF Cardinality(m) = 1 THEN QuizRow(CHOOSE z \in m : TRUE) ELSE NoQuiz

MaybeSingleStudent(studentCode) ==
  LET m == {x \in DOMAIN students : students[x].student_code = studentCode}
  IN IF Cardinality(m) = 1 THEN CHOOSE x \in m : TRUE ELSE "none"

MaybeSingleAttempt(z, st) ==
  LET m == {i \in AttemptIds : /\ quiz_attempts[i].quiz_session_id = z
                               /\ quiz_attempts[i].student_id = st}
  IN IF Cardinality(m) = 1 THEN AttemptRow(CHOOSE i \in m : TRUE) ELSE NoAttempt

\* (quizData as any).duration_seconds || 1800
DurationOf(q) ==
  IF q.duration_seconds = NULL \/ q.duration_seconds = 0
  THEN DefaultDuration ELSE q.duration_seconds

\* the answer ids stored for one question of an attempt, with multiplicity
AnswerIdsOf(a, qid) ==
  LET S == {r \in BagToSet(student_answers) : r.attempt_id = a /\ r.question_id = qid}
      I == {r.answer_id : r \in S}
  IN [x \in I |->
        CopiesIn(CHOOSE r \in S : r.answer_id = x, student_answers)]

\* ------------------------------------------------------- scoring (pure)
CorrectIds(q) ==
  {q.answers[i].id : i \in {j \in DOMAIN q.answers : q.answers[j].is_correct}}

\* isCorrect of saveAnswer / finishQuiz over an array of selected answer ids
IsCorrect(q, ids) ==
  IF q.question_type = "single"
  THEN ids[1] \in CorrectIds(q)
  ELSE /\ Cardinality(CorrectIds(q)) = Len(ids)
       /\ \A c \in CorrectIds(q) : c \in Range(ids)

AnswerIsCorrect(q, aid) ==
  \E i \in DOMAIN q.answers : q.answers[i].id = aid /\ q.answers[i].is_correct

\* the rows saveAnswer / finishQuiz insert for the selected answers
RowsFor(a, q, ids) ==
  LET row(i) == [attempt_id |-> a, question_id |-> q.id, answer_id |-> ids[i],
                 is_correct |-> AnswerIsCorrect(q, ids[i])]
      S == {row(i) : i \in DOMAIN ids}
  IN [r \in S |-> Cardinality({i \in DOMAIN ids : row(i) = r})]

\* the rows an insert into student_answers adds: the statement is refused as
\* a whole when a foreign key fails (question_id names no row of questions or
\* an answer_id no row of answers), and its error is never read
InsertedRows(a, q, ids) ==
  LET stored == UNION {{questions[z][k] : k \in DOMAIN questions[z]} :
                         z \in DOMAIN questions}
      ForeignKeysHold ==
        /\ \E x \in stored : x.id = q.id
        /\ \A i \in DOMAIN ids :
             \E x \in stored : \E j \in DOMAIN x.answers : x.answers[j].id = ids[i]
  IN IF ForeignKeysHold THEN RowsFor(a, q, ids) ELSE EmptyBag

\* the scores the recalculation loop may produce from the stored rows of
\* attempt a: the rows come back in an unspecified order, and a single-type
\* question is judged by the first row returned for it
RecalcScores(a, qs) ==
  LET Verdicts(q) ==
        LET B == AnswerIdsOf(a, q.id)
        IN IF BagSize(B) = 0 THEN {0}
           ELSE {IF IsCorrect(q, sq) THEN 1 ELSE 0 : sq \in SeqsOfBag(B)}
      RECURSIVE Sums(_)
      Sums(i) == IF i = 0 THEN {0}
                 ELSE {x + y : x \in Sums(i - 1), y \in Verdicts(qs[i])}
  IN Sums(Len(qs))

\* ------------------------------------------------------------ sessions
NoHandler == [kind |-> "none", currentIndex |-> 0, selectedAnswers |-> << >>,
              score |-> 0, savedQuestionIds |-> {},
              newScore |-> 0, finalScore |-> 0, finalTimeTaken |-> 0,
              completedAt |-> 0]

NoRender == [currentIndex |-> 0, selectedAnswers |-> << >>, score |-> 0,
             savedQuestionIds |-> {}]

\* the state a render hands to the handlers created in it
Render(r) == [currentIndex |-> r.currentIndex,
              selectedAnswers |-> r.selectedAnswers,
              score |-> r.score, savedQuestionIds |-> r.savedQuestionIds]

InitSession ==
  [pc |-> "closed", quiz |-> QuizState(NoQuiz), student |-> "none",
   attempt |-> AttemptState(NoAttempt),
   questions |-> << >>, currentIndex |-> 0, selectedAnswers |-> << >>,
   savedQuestionIds |-> {}, score |-> 0, finished |-> FALSE, loading |-> TRUE,
   timeRemaining |-> NULL, timeTaken |-> 0, startTimeRef |-> 0,
   timerIntervalRef |-> FALSE,
   timer |-> NoRender, h |-> NoHandler]

\* the timer effect runs (timeRemaining, finished or loading has changed while
\* the countdown is on): the new interval callback closes over this render.
\* The callback calls handleTimeUp only when it finds timeRemaining <= 0, so
\* the render is recorded when its timeRemaining is 0; the closure of any
\* other render is replaced by the next tick before it is used.
TimerEffect(r) ==
  [r EXCEPT !.timerIntervalRef = TRUE,
            !.timer = IF r.timeRemaining <= 0 THEN Render(r) ELSE NoRender]

HomeSession == [InitSession EXCEPT !.pc = "home"]

SetSess(s, r) == sess' = [sess EXCEPT ![s] = r]

\* variant: loadQuiz without the check of the student's group
AllGroupsAssigned(quizData) == Groups

\* the student's group is assigned to the quiz: a quiz_session_groups row or
\* the legacy group_id
AssignedGroupIds(quizData) ==
  {g \in Groups : <<quizData.id, g>> \in quiz_session_groups}
    \cup (IF quizData.group_id # "none" THEN {quizData.group_id} ELSE {})

\* loadQuiz, from the mount of the component up to the permission checks
loadQuiz(s, accessCode, studentCode) ==
  /\ sess[s].pc \in {"closed", "home"}
  /\ LET quizData == MaybeSingleQuiz(accessCode)
         studentData == MaybeSingleStudent(studentCode)
     IN IF accessCode = "" \/ studentCode = ""
        THEN SetSess(s, HomeSession)
        ELSE IF quizData = NoQuiz \/ quizData.deadline < now
        THEN SetSess(s, HomeSession)
        ELSE IF studentData = "none"
        THEN SetSess(s, HomeSession)
        ELSE IF students[studentData].group_id \notin AssignedGroupIds(quizData)
        THEN SetSess(s, HomeSession)
        ELSE SetSess(s, [InitSession EXCEPT !.pc = "lq_attempt",
                                            !.quiz = QuizState(quizData),
                                            !.student = studentData,
                                            !.startTimeRef = now])
  /\ UNCHANGED << now, quiz_sessions, quiz_session_groups, questions,
                  quiz_attempts, student_answers, results_pc, granted, others >>

\* variant: quiz_attempts without its UNIQUE constraint
NoUniqueConstraint(z, st) == FALSE

\* UNIQUE(quiz_session_id, student_id) of quiz_attempts: an insert of (z, st)
\* is refused when a row of that pair is already there
UniqueViolation(z, st) ==
  \E i \in AttemptIds : /\ quiz_attempts[i].quiz_session_id = z
                        /\ quiz_attempts[i].student_id = st

\* the selection loadQuiz restores for the first question of a resumed attempt
ResumeSelections(a, questionsData) ==
  IF Len(questionsData) > 0 /\ BagSize(AnswerIdsOf(a, questionsData[1].id)) > 0
  THEN SeqsOfBag(AnswerIdsOf(a, questionsData[1].id))
  ELSE {<< >>}

\* variant: loadQuiz without its branch for a completed attempt
NeverCompleted(existingAttempt) == FALSE

\* existingAttempt?.completed_at
Completed(existingAttempt) ==
  existingAttempt.id # 0 /\ existingAttempt.completed_at # NULL

SavedIdsOf(a) ==
  {r.question_id : r \in {x \in BagToSet(student_answers) : x.attempt_id = a}}

\* loadQuiz, the lookup of the existing attempt: a completed attempt is shown
\* as finished, an uncompleted one is resumed, none leads to the insert
loadQuiz_attempt(s) ==
  /\ sess[s].pc = "lq_attempt"
  /\ \E questionsData \in OrderedBy(questions[sess[s].quiz.id]) :
     LET r == sess[s]
         existingAttempt == MaybeSingleAttempt(r.quiz.id, r.student)
     IN IF Completed(existingAttempt)
        THEN /\ SetSess(s, [r EXCEPT
                  !.pc = "finished",
                  !.score = IF existingAttempt.score # NULL
                            THEN existingAttempt.score ELSE 0,
                  !.attempt = AttemptState(existingAttempt),
                  !.questions = questionsData,
                  !.timeTaken = IF existingAttempt.time_taken_seconds = NULL
                                THEN 0 ELSE existingAttempt.time_taken_seconds,
                  !.finished = TRUE,
                  !.loading = FALSE])
             /\ UNCHANGED quiz_attempts
        ELSE IF existingAttempt.id # 0
        THEN \E sel \in ResumeSelections(existingAttempt.id, questionsData) :
             \E sc \in (IF existingAttempt.score # NULL
                        THEN {existingAttempt.score}
                        ELSE RecalcScores(existingAttempt.id, questionsData)) :
               /\ SetSess(s, TimerEffect([r EXCEPT
                    !.pc = "ready",
                    !.attempt = AttemptState(existingAttempt),
                    !.questions = questionsData,
                    !.startTimeRef = existingAttempt.started_at,
                    !.score = sc,
                    !.savedQuestionIds = SavedIdsOf(existingAttempt.id),
                    !.selectedAnswers = sel,
                    !.timeRemaining = DurationOf(r.quiz),
                    !.loading = FALSE]))
               /\ quiz_attempts' =
                    IF existingAttempt.score = NULL
                    THEN [quiz_attempts EXCEPT ![existingAttempt.id].score = sc]
                    ELSE quiz_attempts
        ELSE /\ SetSess(s, [r EXCEPT !.pc = "lq_insert",
                                     !.questions = questionsData])
             /\ UNCHANGED quiz_attempts
  /\ UNCHANGED << now, quiz_sessions, quiz_session_groups, questions,
                  student_answers, results_pc, granted, others >>

\* loadQuiz, the insert of a new attempt and the start of the countdown; the
\* result of the insert is not checked, so a refused insert leaves attempt null
loadQuiz_insert(s) ==
  /\ sess[s].pc = "lq_insert"
  /\ LET r == sess[s]
         row == [quiz_session_id |-> r.quiz.id, student_id |-> r.student,
                 started_at |-> now, completed_at |-> NULL, score |-> 0,
                 total_questions |-> Len(r.questions),
                 time_taken_seconds |-> NULL, ranking |-> NULL]
         refused == UniqueViolation(r.quiz.id, r.student)
     IN /\ quiz_attempts' = IF refused THEN quiz_attempts
                            ELSE Append(quiz_attempts, row)
        /\ SetSess(s, TimerEffect([r EXCEPT
             !.pc = "ready",
             !.attempt = IF refused THEN AttemptState(NoAttempt)
                         ELSE [id |-> Len(quiz_attempts) + 1],
             !.startTimeRef = now,
             !.timeRemaining = DurationOf(r.quiz),
             !.loading = FALSE]))
  /\ UNCHANGED << now, quiz_sessions, quiz_session_groups, questions,
                  student_answers, results_pc, granted, others >>

\* the question on screen, questions[currentIndex]
HasCurrentQ(r) == r.currentIndex + 1 \in DOMAIN r.questions

CurrentQ(r) == r.questions[r.currentIndex + 1]

\* the same as seen by the handler in flight
HasClosureQ(r) == r.h.currentIndex + 1 \in DOMAIN r.questions

ClosureQ(r) == r.questions[r.h.currentIndex + 1]

handleAnswer(s, answerId) ==
  /\ sess[s].pc = "ready"
  /\ HasCurrentQ(sess[s])
  /\ LET r == sess[s]
         q == CurrentQ(r)
         keep(x) == x # answerId
     IN /\ \E i \in DOMAIN q.answers : q.answers[i].id = answerId
        /\ SetSess(s, [r EXCEPT !.selectedAnswers =
             IF q.question_type = "single" THEN << answerId >>
             ELSE IF answerId \in Range(@) THEN SelectSeq(@, keep)
             ELSE Append(@, answerId)])
  /\ UNCHANGED << now, quiz_sessions, quiz_session_groups, questions,
                  quiz_attempts, student_answers, results_pc, granted, others >>

\* the countdown seconds counted so far for attempt a, in any session
Granted(a) == IF a \in DOMAIN granted THEN granted[a] ELSE 0

\* one more second counted for attempt a; the count stops at MaxGranted
CountSecond(a) ==
  [i \in DOMAIN granted \cup {a} |->
     IF i = a THEN Min(Granted(a) + 1, MaxGranted) ELSE granted[i]]

\* the interval callback while time remains
TimerTick(s) ==
  /\ sess[s].pc = "ready"
  /\ sess[s].timerIntervalRef
  /\ sess[s].timeRemaining # NULL
  /\ sess[s].timeRemaining > 0
  /\ LET r == sess[s]
         newRemaining == r.timeRemaining - 1
     IN SetSess(s, TimerEffect([r EXCEPT
          !.timeRemaining = newRemaining,
          !.timeTaken = IF r.quiz.id # "none"
                        THEN Max(0, DurationOf(r.quiz) - newRemaining) ELSE @]))
  /\ granted' = IF sess[s].attempt.id = 0 THEN granted
                ELSE CountSecond(sess[s].attempt.id)
  /\ UNCHANGED << now, quiz_sessions, quiz_session_groups, questions,
                  quiz_attempts, student_answers, results_pc, others >>

\* finishQuiz up to its first database call, run with the values the calling
\* handler closed over (r.h)
FinishBegin(r) ==
  LET needInsert == /\ Len(r.h.selectedAnswers) > 0
                    /\ r.attempt.id # 0
                    /\ HasClosureQ(r)
                    /\ ClosureQ(r).id \notin r.h.savedQuestionIds
      correct == needInsert /\ IsCorrect(ClosureQ(r), r.h.selectedAnswers)
      finalScore == IF correct THEN r.h.score + 1 ELSE r.h.score
  IN IF needInsert
     THEN [r EXCEPT !.pc = "fq_insert",
                    !.score = IF correct THEN finalScore ELSE @,
                    !.h.finalScore = finalScore]
     ELSE IF r.attempt.id = 0
     THEN [r EXCEPT !.pc = "ready", !.h = NoHandler]
     ELSE [r EXCEPT !.pc = "fq_select", !.h.finalScore = finalScore]

\* variant: nextQuestion without the test for the last question
AfterSaveAlwaysAdvance(r) ==
  IF r.h.kind = "next"
  THEN [r EXCEPT !.currentIndex = r.h.currentIndex + 1, !.selectedAnswers = << >>,
                 !.pc = "ready", !.h = NoHandler]
  ELSE FinishBegin(r)

\* nextQuestion / handleTimeUp after saveAnswer has returned
AfterSave(r) ==
  IF r.h.kind = "next" /\ r.h.currentIndex < Len(r.questions) - 1
  THEN LET nextIndex == r.h.currentIndex + 1
       IN IF r.questions[nextIndex + 1].id \in r.h.savedQuestionIds
          THEN [r EXCEPT !.currentIndex = nextIndex, !.pc = "nq_select"]
          ELSE [r EXCEPT !.currentIndex = nextIndex,
                         !.selectedAnswers = << >>,
                         !.pc = "ready", !.h = NoHandler]
  ELSE FinishBegin(r)

\* saveAnswer up to its insert
SaveAnswerBegin(r) ==
  IF \/ Len(r.h.selectedAnswers) = 0
     \/ r.attempt.id = 0
     \/ ~HasClosureQ(r)
  THEN AfterSave(r)
  ELSE IF ClosureQ(r).id \in r.h.savedQuestionIds
  THEN AfterSave(r)
  ELSE LET newScore == IF IsCorrect(ClosureQ(r), r.h.selectedAnswers)
                       THEN r.h.score + 1 ELSE r.h.score
       IN [r EXCEPT !.pc = "sa_insert", !.score = newScore,
                    !.h.newScore = newScore]

\* a handler of the given kind created in the render with values v
Closure(v, kind) ==
  [NoHandler EXCEPT !.kind = kind, !.currentIndex = v.currentIndex,
                    !.selectedAnswers = v.selectedAnswers, !.score = v.score,
                    !.savedQuestionIds = v.savedQuestionIds]

\* the Next / Finish button (disabled while nothing is selected)
nextQuestion(s) ==
  /\ sess[s].pc = "ready"
  /\ Len(sess[s].selectedAnswers) > 0
  /\ ~sess[s].finished
  /\ LET r == [sess[s] EXCEPT !.h = Closure(Render(sess[s]), "next")]
     IN SetSess(s, IF Len(r.h.selectedAnswers) > 0 /\ r.attempt.id # 0
                   THEN SaveAnswerBegin(r) ELSE AfterSave(r))
  /\ UNCHANGED << now, quiz_sessions, quiz_session_groups, questions,
                  quiz_attempts, student_answers, results_pc, granted, others >>

\* the interval callback once the countdown is at 0: handleTimeUp of the
\* render the callback closed over
handleTimeUp(s) ==
  /\ sess[s].pc = "ready"
  /\ sess[s].timerIntervalRef
  /\ sess[s].timeRemaining # NULL
  /\ sess[s].timeRemaining <= 0
  /\ LET r == [sess[s] EXCEPT !.h = Closure(sess[s].timer, "timeup"),
                              !.timerIntervalRef = FALSE,
                              !.timer = NoRender]
     IN SetSess(s, IF Len(r.h.selectedAnswers) > 0 /\ r.attempt.id # 0
                   THEN SaveAnswerBegin(r) ELSE FinishBegin(r))
  /\ UNCHANGED << now, quiz_sessions, quiz_session_groups, questions,
                  quiz_attempts, student_answers, results_pc, granted, others >>

saveAnswer_insert(s) ==
  /\ sess[s].pc = "sa_insert"
  /\ LET r == sess[s]
     IN /\ student_answers' =
             student_answers (+) InsertedRows(r.attempt.id, ClosureQ(r), r.h.selectedAnswers)
        /\ SetSess(s, [r EXCEPT !.pc = "sa_update"])
  /\ UNCHANGED << now, quiz_sessions, quiz_session_groups, questions,
                  quiz_attempts, results_pc, granted, others >>

saveAnswer_update(s) ==
  /\ sess[s].pc = "sa_update"
  /\ LET r == sess[s]
     IN /\ quiz_attempts' =
             [quiz_attempts EXCEPT ![r.attempt.id].score = r.h.newScore]
        /\ SetSess(s, AfterSave([r EXCEPT !.savedQuestionIds =
                                            @ \cup {ClosureQ(r).id}]))
  /\ UNCHANGED << now, quiz_sessions, quiz_session_groups, questions,
                  student_answers, results_pc, granted, others >>

\* nextQuestion, the reload of the stored answers of a question saved earlier
nextQuestion_select(s) ==
  /\ sess[s].pc = "nq_select"
  /\ LET r == sess[s]
         B == AnswerIdsOf(r.attempt.id, CurrentQ(r).id)
     IN \E sel \in (IF BagSize(B) > 0 THEN SeqsOfBag(B) ELSE {<< >>}) :
          SetSess(s, [r EXCEPT !.selectedAnswers = sel, !.pc = "ready",
                               !.h = NoHandler])
  /\ UNCHANGED << now, quiz_sessions, quiz_session_groups, questions,
                  quiz_attempts, student_answers, results_pc, granted, others >>

finishQuiz_insert(s) ==
  /\ sess[s].pc = "fq_insert"
  /\ LET r == sess[s]
     IN /\ student_answers' =
             student_answers (+) InsertedRows(r.attempt.id, ClosureQ(r), r.h.selectedAnswers)
        /\ SetSess(s, [r EXCEPT !.pc = "fq_select",
                                !.savedQuestionIds = @ \cup {ClosureQ(r).id}])
  /\ UNCHANGED << now, quiz_sessions, quiz_session_groups, questions,
                  quiz_attempts, results_pc, granted, others >>

\* finishQuiz, the recalculation of the score from the stored answers, the
\* stop of the timer and the computation of the time taken
\* variant: the time taken measured against the default duration
FinalTimeTakenOfDefault(r) ==
  Max(0, IF r.timeRemaining # NULL /\ r.quiz.id # "none"
         THEN DefaultDuration - r.timeRemaining
         ELSE now - r.startTimeRef)

\* finishQuiz's finalTimeTaken: duration minus remaining time while the timer
\* has a value, the elapsed time otherwise, and not negative
FinalTimeTaken(r) ==
  Max(0, IF r.timeRemaining # NULL /\ r.quiz.id # "none"
         THEN DurationOf(r.quiz) - r.timeRemaining
         ELSE now - r.startTimeRef)

finishQuiz_select(s) ==
  /\ sess[s].pc = "fq_select"
  /\ LET r == sess[s]
         finalTimeTaken == FinalTimeTaken(r)
     IN \E finalScore \in (IF Len(r.questions) > 0
                           THEN RecalcScores(r.attempt.id, r.questions)
                           ELSE {r.h.finalScore}) :
          SetSess(s, [r EXCEPT !.pc = "fq_update",
                               !.score = finalScore,
                               !.timerIntervalRef = FALSE,
                               !.timer = NoRender,
                               !.h.finalScore = finalScore,
                               !.h.finalTimeTaken = finalTimeTaken,
                               !.h.completedAt = now])
  /\ UNCHANGED << now, quiz_sessions, quiz_session_groups, questions,
                  quiz_attempts, student_answers, results_pc, granted, others >>

finishQuiz_update(s) ==
  /\ sess[s].pc = "fq_update"
  /\ LET r == sess[s]
     IN /\ quiz_attempts' =
             [quiz_attempts EXCEPT ![r.attempt.id] =
                [@ EXCEPT !.score = r.h.finalScore,
                          !.completed_at = r.h.completedAt,
                          !.time_taken_seconds = r.h.finalTimeTaken]]
        /\ SetSess(s, [r EXCEPT !.pc = "finished",
                                !.timeTaken = r.h.finalTimeTaken,
                                !.finished = TRUE,
                                !.timeRemaining = NULL,
                                !.h = NoHandler])
  /\ UNCHANGED << now, quiz_sessions, quiz_session_groups, questions,
                  student_answers, results_pc, granted, others >>

\* the tab is closed or reloaded: the component state is gone, whatever was in
\* flight is abandoned
Close(s) ==
  /\ sess[s].pc \notin {"closed", "home"}
  /\ SetSess(s, InitSession)
  /\ UNCHANGED << now, quiz_sessions, quiz_session_groups, questions,
                  quiz_attempts, student_answers, results_pc, granted, others >>

\* ------------------------------------------------------------- teacher
\* what the teacher may enter in the edit dialog
DeadlineInputs == {MaxTime}
ExtendInputs == {1}
DurationInputs == {QuizDuration}

\* updateQuiz: the deadline is the one entered, or, with "extend deadline"
\* ticked, the current time plus the hours and minutes entered
updateQuiz(z, extendDeadline, deadlineInput, toAdd, durationSeconds) ==
  /\ quiz_sessions' =
       [quiz_sessions EXCEPT
          ![z].deadline = IF extendDeadline THEN now + toAdd ELSE deadlineInput,
          ![z].duration_seconds = durationSeconds]
  /\ UNCHANGED << now, quiz_session_groups, questions, quiz_attempts,
                  student_answers, sess, results_pc, granted, others >>

\* variant: the ranking ordered by ascending score
RankBeforeAscending(x, y) ==
  \/ x.score < y.score
  \/ /\ x.score = y.score
     /\ \/ x.time_taken_seconds < y.time_taken_seconds
        \/ /\ x.time_taken_seconds = y.time_taken_seconds
           /\ x.completed_at < y.completed_at

\* ORDER BY score DESC NULLS LAST, time_taken_seconds ASC NULLS LAST,
\* completed_at ASC: row x sorts strictly before row y
RankBefore(x, y) ==
  LET scoreLt == x.score # NULL /\ (y.score = NULL \/ x.score > y.score)
      timeLt == /\ x.time_taken_seconds # NULL
                /\ \/ y.time_taken_seconds = NULL
                   \/ x.time_taken_seconds < y.time_taken_seconds
  IN \/ scoreLt
     \/ /\ x.score = y.score
        /\ \/ timeLt
           \/ /\ x.time_taken_seconds = y.time_taken_seconds
              /\ x.completed_at < y.completed_at

\* the first k rows ROW_NUMBER() may number among the rows R of table A: rows
\* that compare equal are numbered in an unspecified order
TopOrders(A, R, k) ==
  LET RECURSIVE Tops(_, _)
      Tops(S, n) ==
        IF n = 0 \/ S = {} THEN {<< >>}
        ELSE UNION {{<< a >> \o t : t \in Tops(S \ {a}, n - 1)} :
                      a \in {m \in S : \A b \in S : ~RankBefore(A[b], A[m])}}
  IN Tops(R, k)

\* variant: the function without its reset of the rankings
KeepRankings(z) == quiz_attempts

\* UPDATE quiz_attempts SET ranking = NULL WHERE quiz_session_id = z
ResetRankings(z) ==
  [i \in DOMAIN quiz_attempts |->
     IF quiz_attempts[i].quiz_session_id = z
     THEN [quiz_attempts[i] EXCEPT !.ranking = NULL]
     ELSE quiz_attempts[i]]

\* the tables calculate_quiz_rankings may leave: unchanged before the
\* deadline; otherwise rankings reset, missing time_taken_seconds filled in,
\* and the first three completed attempts numbered
RankingOutcomes(z) ==
  IF quiz_sessions[z].deadline = NULL \/ quiz_sessions[z].deadline > now
  THEN {quiz_attempts}
  ELSE LET A1 == ResetRankings(z)
           A2 == [i \in DOMAIN A1 |->
                    IF /\ A1[i].quiz_session_id = z
                       /\ A1[i].completed_at # NULL
                       /\ A1[i].time_taken_seconds = NULL
                    THEN [A1[i] EXCEPT !.time_taken_seconds =
                                         A1[i].completed_at - A1[i].started_at]
                    ELSE A1[i]]
           R == {i \in DOMAIN A2 : /\ A2[i].quiz_session_id = z
                                   /\ A2[i].completed_at # NULL}
       IN {[i \in DOMAIN A2 |->
              IF \E j \in DOMAIN top : top[j] = i
              THEN [A2[i] EXCEPT !.ranking = CHOOSE j \in DOMAIN top : top[j] = i]
              ELSE A2[i]] : top \in TopOrders(A2, R, TopRanks)}

\* the database function, callable by anyone through rpc
calculate_quiz_rankings(z) ==
  /\ quiz_attempts' \in RankingOutcomes(z)
  /\ UNCHANGED << now, quiz_sessions, quiz_session_groups, questions,
                  student_answers, sess, results_pc, granted, others >>

\* variant: loadResults calling the ranking function whatever the deadline
RankingAlwaysDue(quizData) == TRUE

\* quizData && new Date(quizData.deadline) < new Date()
RankingDue(quizData) == quizData.deadline < now

\* loadResults of the Results page: read the deadline, call the ranking
\* function when the deadline is earlier than now, then read the attempts
loadResults(z) ==
  /\ results_pc = "idle"
  /\ results_pc' = IF RankingDue(QuizRow(z)) THEN "rpc" ELSE "select"
  /\ UNCHANGED << now, quiz_sessions, quiz_session_groups, questions,
                  quiz_attempts, student_answers, sess, granted, others >>

\* loadResults, the rpc: the function runs, or the call fails (rankError or an
\* exception, both only logged); the attempts are read next in either case
loadResults_rpc(z) ==
  /\ results_pc = "rpc"
  /\ \/ /\ quiz_attempts' \in RankingOutcomes(z)
        /\ results_pc' = "select"
     \/ /\ quiz_attempts' = quiz_attempts
        /\ results_pc' = "select_after_error"
  /\ UNCHANGED << now, quiz_sessions, quiz_session_groups, questions,
                  student_answers, sess, granted, others >>

\* loadResults, the read of the attempts shown
loadResults_select(z) ==
  /\ results_pc \in {"select", "select_after_error"}
  /\ results_pc' = "idle"
  /\ UNCHANGED << now, quiz_sessions, quiz_session_groups, questions,
                  quiz_attempts, student_answers, sess, granted, others >>

ClockTick ==
  /\ now < MaxTime
  /\ now' = now + 1
  /\ UNCHANGED << quiz_sessions, quiz_session_groups, questions,
                  quiz_attempts, student_answers, sess, results_pc, granted, others >>

\* -------------------------------------------------------------- editor
\* the ids gen_random_uuid() gives to inserted questions and answers
NewQuestionIds == << "n1", "n2", "n3", "n4" >>

NewAnswerId(qid, j) ==
  CASE qid = "n1" -> << "n1a", "n1b", "n1c", "n1d" >>[j]
    [] qid = "n2" -> << "n2a", "n2b", "n2c", "n2d" >>[j]
    [] qid = "n3" -> << "n3a", "n3b", "n3c", "n3d" >>[j]
    [] OTHER -> << "n4a", "n4b", "n4c", "n4d" >>[j]

\* the QuizEdit component before it is opened and after it has navigated away
\* history of a running saveQuiz: the group rows, the questions with their
\* answers, the attempts and the students' answers that were stored for the
\* quiz when it was called; no action reads it
Snapshot(z) ==
  [groups |-> {g \in Groups : << z, g >> \in quiz_session_groups},
   questions |-> questions[z],
   quiz_attempts |-> quiz_attempts,
   student_answers |-> student_answers]

EditorClosed == [pc |-> "closed", quizId |-> "none", quizTitle |-> "",
                 selectedGroups |-> {}, questions |-> << >>, i |-> 0,
                 questionData |-> "none", toast |-> [text |-> "", i |-> 0],
                 before |-> [groups |-> {}, questions |-> << >>,
                             quiz_attempts |-> << >>,
                             student_answers |-> EmptyBag]]

\* a stored question as the editor holds it; the stored texts are not blank
\* (the id is kept for the question's image only)
FormatQuestion(q) ==
  LET sorted == SortByOrderIndex(q.answers)
  IN [question_text |-> q.question_text, question_type |-> q.question_type,
      answers |-> [j \in DOMAIN sorted |->
                     [answer_text |-> sorted[j].answer_text,
                      is_correct |-> sorted[j].is_correct]]]

\* the question addQuestion appends
NewQuestion ==
  [question_text |-> "", question_type |-> "single",
   answers |-> [j \in 1..4 |-> [answer_text |-> "", is_correct |-> FALSE]]]

\* a step that changes the editor's component state only
EditorOnly ==
  UNCHANGED << now, quiz_sessions, quiz_session_groups, questions,
               quiz_attempts, student_answers, sess, results_pc, granted,
               quizzes_page, codes, rls >>

\* the editor's loadQuiz: the quiz, its groups and its questions with answers
QuizEdit_loadQuiz(z) ==
  /\ editor.pc = "closed"
  /\ z \in DOMAIN quiz_sessions
  /\ \E questionsData \in OrderedBy(questions[z]) :
       editor' = [EditorClosed EXCEPT
                    !.pc = "edit", !.quizId = z, !.quizTitle = "t",
                    !.selectedGroups = {g \in Groups : << z, g >> \in quiz_session_groups},
                    !.questions = [k \in DOMAIN questionsData |->
                                     FormatQuestion(questionsData[k])]]
  /\ EditorOnly

removeQuestion(index) ==
  /\ editor.pc = "edit"
  /\ index \in DOMAIN editor.questions
  /\ editor' = [editor EXCEPT !.questions =
                  [k \in 1..(Len(@) - 1) |-> IF k < index THEN @[k] ELSE @[k + 1]]]
  /\ EditorOnly

addQuestion ==
  /\ editor.pc = "edit"
  /\ Len(editor.questions) < MaxEditorQuestions
  /\ editor' = [editor EXCEPT !.questions = Append(@, NewQuestion)]
  /\ EditorOnly

\* updateQuestion(index, updates) with updates = { field: value }
updateQuestion(index, field, value) ==
  /\ editor.pc = "edit"
  /\ index \in DOMAIN editor.questions
  /\ editor' = [editor EXCEPT !.questions[index] =
                  IF field = "question_type"
                  THEN [@ EXCEPT !.question_type = value]
                  ELSE [@ EXCEPT !.question_text = value]]
  /\ EditorOnly

\* the answers of question q after updateAnswer(qIndex, aIndex, updates) with
\* updates = { field: value }: marking an answer of a single-choice question
\* correct unmarks the others
UpdatedAnswers(q, aIndex, field, value) ==
  LET merged == [q.answers EXCEPT ![aIndex] =
                   IF field = "is_correct"
                   THEN [@ EXCEPT !.is_correct = value]
                   ELSE [@ EXCEPT !.answer_text = value]]
  IN IF field = "is_correct" /\ value /\ q.question_type = "single"
     THEN [j \in DOMAIN merged |-> [merged[j] EXCEPT !.is_correct = (j = aIndex)]]
     ELSE merged

updateAnswer(qIndex, aIndex, field, value) ==
  /\ editor.pc = "edit"
  /\ qIndex \in DOMAIN editor.questions
  /\ aIndex \in DOMAIN editor.questions[qIndex].answers
  /\ editor' = [editor EXCEPT !.questions[qIndex].answers =
                  UpdatedAnswers(editor.questions[qIndex], aIndex, field, value)]
  /\ EditorOnly

\* the title field's onChange
setQuizTitle(value) ==
  /\ editor.pc = "edit"
  /\ editor' = [editor EXCEPT !.quizTitle = value]
  /\ EditorOnly

toggleGroup(groupId) ==
  /\ editor.pc = "edit"
  /\ editor' = [editor EXCEPT !.selectedGroups =
                  IF groupId \in @ THEN @ \ {groupId} ELSE @ \cup {groupId}]
  /\ EditorOnly

\* String.prototype.trim on the texts the editor is given
Trim(t) == IF t = " " THEN "" ELSE t

\* the answers of q that have a text
ValidAnswers(q) ==
  LET HasText(a) == Trim(a.answer_text) # ""
  IN SelectSeq(q.answers, HasText)

\* variant: a validation that looks at the title and the groups only
ValidationOfMetadata(e) ==
  /\ Trim(e.quizTitle) # ""
  /\ e.selectedGroups # {}

\* saveQuiz's validation: a title, a group, and for every question a text, two
\* answers with a text and a correct answer
Validation(e) ==
  /\ Trim(e.quizTitle) # ""
  /\ e.selectedGroups # {}
  /\ \A k \in DOMAIN e.questions :
       /\ Trim(e.questions[k].question_text) # ""
       /\ Len(ValidAnswers(e.questions[k])) >= 2
       /\ \E j \in DOMAIN e.questions[k].answers : e.questions[k].answers[j].is_correct

\* the toast of the first test of saveQuiz's validation that fails
ValidationToast(e) ==
  LET Bad(k) ==
        \/ Trim(e.questions[k].question_text) = ""
        \/ Len(ValidAnswers(e.questions[k])) < 2
        \/ \A j \in DOMAIN e.questions[k].answers : ~e.questions[k].answers[j].is_correct
      first == CHOOSE k \in DOMAIN e.questions :
                 Bad(k) /\ \A m \in 1..(k - 1) : ~Bad(m)
  IN IF Trim(e.quizTitle) = "" THEN [text |-> "Quiz title is required", i |-> 0]
     ELSE IF e.selectedGroups = {} THEN [text |-> "Please select at least one group", i |-> 0]
     ELSE IF Trim(e.questions[first].question_text) = ""
     THEN [text |-> "Question is empty", i |-> first]
     ELSE IF Len(ValidAnswers(e.questions[first])) < 2
     THEN [text |-> "Question needs at least 2 answers", i |-> first]
     ELSE [text |-> "Question needs at least one correct answer", i |-> first]

\* saveQuiz up to its first database call; a failed validation shows a toast
\* and returns
saveQuiz ==
  /\ editor.pc = "edit"
  /\ editor' = IF Validation(editor)
               THEN [editor EXCEPT !.pc = "update",
                                   !.before = Snapshot(editor.quizId)]
               ELSE [editor EXCEPT !.toast = ValidationToast(editor)]
  /\ EditorOnly

\* saveQuiz's catch: the toast 'Failed to save quiz', the editor stays open
SaveFailed(e) == [e EXCEPT !.pc = "edit", !.i = 0, !.questionData = "none",
                           !.toast = [text |-> "Failed to save quiz", i |-> 0],
                           !.before = EditorClosed.before]

\* update of the quiz_sessions row (title, description, updated_at)
saveQuiz_update ==
  /\ editor.pc = "update"
  /\ \E error \in BOOLEAN :
       editor' = IF error THEN SaveFailed(editor)
                 ELSE [editor EXCEPT !.pc = "groups_delete"]
  /\ EditorOnly

\* delete of the quiz's quiz_session_groups rows
saveQuiz_groups_delete ==
  /\ editor.pc = "groups_delete"
  /\ \E error \in BOOLEAN :
       IF error
       THEN /\ editor' = SaveFailed(editor)
            /\ quiz_session_groups' = quiz_session_groups
       ELSE /\ editor' = [editor EXCEPT !.pc = "groups_insert"]
            /\ quiz_session_groups' =
                 {p \in quiz_session_groups : p[1] # editor.quizId}
  /\ UNCHANGED << now, quiz_sessions, questions, quiz_attempts, student_answers,
                  sess, results_pc, granted, quizzes_page, codes, rls >>

\* insert of a quiz_session_groups row for every selected group
saveQuiz_groups_insert ==
  /\ editor.pc = "groups_insert"
  /\ \E error \in BOOLEAN :
       IF error
       THEN /\ editor' = SaveFailed(editor)
            /\ quiz_session_groups' = quiz_session_groups
       ELSE /\ editor' = [editor EXCEPT !.pc = "select"]
            /\ quiz_session_groups' =
                 quiz_session_groups \cup
                   {<< editor.quizId, g >> : g \in editor.selectedGroups}
  /\ UNCHANGED << now, quiz_sessions, questions, quiz_attempts, student_answers,
                  sess, results_pc, granted, quizzes_page, codes, rls >>

\* select of the existing questions (for their images)
saveQuiz_select ==
  /\ editor.pc = "select"
  /\ \E error \in BOOLEAN :
       editor' = IF error THEN SaveFailed(editor)
                 ELSE [editor EXCEPT !.pc = "delete"]
  /\ EditorOnly

\* the end of saveQuiz: the toast 'Quiz saved successfully!' and navigate
SaveDone == [EditorClosed EXCEPT !.toast = [text |-> "Quiz saved successfully!", i |-> 0]]

\* the rows of student_answers left by ON DELETE CASCADE when the questions
\* with the ids gone are deleted
CascadeDelete(gone) ==
  LET left == {r \in BagToSet(student_answers) : r.question_id \notin gone}
  IN [r \in left |-> CopiesIn(r, student_answers)]

\* delete of the quiz's questions, whose error is not looked at
saveQuiz_delete ==
  /\ editor.pc = "delete"
  /\ \E error \in BOOLEAN :
       IF error
       THEN UNCHANGED << questions, student_answers >>
       ELSE /\ questions' = [questions EXCEPT ![editor.quizId] = << >>]
            /\ student_answers' =
                 CascadeDelete({questions[editor.quizId][k].id :
                                  k \in DOMAIN questions[editor.quizId]})
  /\ editor' = IF editor.questions = << >> THEN SaveDone
               ELSE [editor EXCEPT !.pc = "question", !.i = 1]
  /\ UNCHANGED << now, quiz_sessions, quiz_session_groups, quiz_attempts,
                  sess, results_pc, granted, quizzes_page, codes, rls >>

\* the question ids in use
UsedQuestionIds ==
  UNION {{questions[z][k].id : k \in DOMAIN questions[z]} : z \in DOMAIN questions}
    \cup {r.question_id : r \in BagToSet(student_answers)}
    \cup UNION {{sess[s].questions[k].id : k \in DOMAIN sess[s].questions} :
                  s \in Sessions}

\* insert of question i with order_index i - 1
saveQuiz_question ==
  /\ editor.pc = "question"
  /\ \E error \in BOOLEAN :
       IF error
       THEN /\ editor' = SaveFailed(editor)
            /\ questions' = questions
       ELSE \E n \in DOMAIN NewQuestionIds :
              /\ Len(questions[editor.quizId]) <= MaxEditorQuestions
              /\ NewQuestionIds[n] \notin UsedQuestionIds
              /\ \A m \in 1..(n - 1) : NewQuestionIds[m] \in UsedQuestionIds
              /\ questions' =
                   [questions EXCEPT ![editor.quizId] =
                      Append(@, [id |-> NewQuestionIds[n],
                                 question_text |->
                                   editor.questions[editor.i].question_text,
                                 question_type |->
                                   editor.questions[editor.i].question_type,
                                 order_index |-> editor.i - 1,
                                 answers |-> << >>])]
              /\ editor' = [editor EXCEPT !.pc = "answers",
                                          !.questionData = NewQuestionIds[n]]
  /\ UNCHANGED << now, quiz_sessions, quiz_session_groups, quiz_attempts,
                  student_answers, sess, results_pc, granted, quizzes_page,
                  codes, rls >>

\* the answer rows inserted for editor question q under question id qid
AnswersToInsert(q, qid) ==
  LET valid == ValidAnswers(q)
  IN [j \in DOMAIN valid |->
        [id |-> NewAnswerId(qid, j), answer_text |-> valid[j].answer_text,
         is_correct |-> valid[j].is_correct, order_index |-> j - 1]]

\* insert of the answers of question i that have a text, then the next
\* question
saveQuiz_answers ==
  /\ editor.pc = "answers"
  /\ \E error \in BOOLEAN :
       IF error
       THEN /\ editor' = SaveFailed(editor)
            /\ questions' = questions
       ELSE /\ questions' =
                 [questions EXCEPT ![editor.quizId] =
                    [k \in DOMAIN @ |->
                       IF @[k].id = editor.questionData
                       THEN [@[k] EXCEPT !.answers =
                               AnswersToInsert(editor.questions[editor.i],
                                               editor.questionData)]
                       ELSE @[k]]]
            /\ editor' = IF editor.i < Len(editor.questions)
                         THEN [editor EXCEPT !.pc = "question", !.i = @ + 1,
                                             !.questionData = "none"]
                         ELSE SaveDone
  /\ UNCHANGED << now, quiz_sessions, quiz_session_groups, quiz_attempts,
                  student_answers, sess, results_pc, granted, quizzes_page,
                  codes, rls >>

\* the teacher leaves the editor
QuizEdit_Close ==
  /\ editor.pc # "closed"
  /\ editor' = EditorClosed
  /\ EditorOnly

\* --------------------------------------------------------------- codes
\* SQL NULL in a code column of an INSERT
NullCode == "NULL"

\* the values upper(substr(md5(random()::text), 1, n)) takes
StudentCodes == {"A1", "B2"}
QuizCodes == {"AZ1", "AZ2"}

Connections == {"k1", "k2"}
CodeTables == {"students", "quiz_sessions"}
NoInsert == [table |-> "none", code |-> NullCode]

\* the codes a client may put in its INSERT: none, the empty string, or a code
\* that the generator can produce as well
SuppliedCodes == [t \in CodeTables |->
                   IF t = "students" THEN {NullCode, "", "A1"}
                   ELSE {NullCode, "", "AZ1"}]

\* generate_student_code: a random code that no row of students has
generate_student_code(rows) == {code \in StudentCodes : code \notin Range(rows)}

\* generate_quiz_code: a random code that no row of quiz_sessions has
generate_quiz_code(rows) == {code \in QuizCodes : code \notin Range(rows)}

\* set_student_code, BEFORE INSERT: the values NEW.student_code may leave with
set_student_code(new_code, rows) ==
  IF new_code = NullCode \/ new_code = "" THEN generate_student_code(rows) ELSE {new_code}

\* variant: a trigger that generates a code for NULL only
set_quiz_code_null_only(new_code, rows) ==
  IF new_code = NullCode THEN generate_quiz_code(rows) ELSE {new_code}

\* set_quiz_code, BEFORE INSERT: the values NEW.access_code may leave with
set_quiz_code(new_code, rows) ==
  IF new_code = NullCode \/ new_code = "" THEN generate_quiz_code(rows) ELSE {new_code}

\* student_code / access_code TEXT NOT NULL UNIQUE
NotNullUnique(code, rows) == code # NullCode /\ code \notin Range(rows)

\* an INSERT of connection k up to the end of its BEFORE INSERT trigger, which
\* sees the rows committed so far
trigger_set_code(k, t, new_code) ==
  /\ codes.pending[k] = NoInsert
  /\ Len(codes[t]) < MaxRows
  /\ \E code \in IF t = "students" THEN set_student_code(new_code, codes.students)
                  ELSE set_quiz_code(new_code, codes.quiz_sessions) :
       codes' = [codes EXCEPT !.pending[k] = [table |-> t, code |-> code]]
  /\ UNCHANGED << now, quiz_sessions, quiz_session_groups, questions,
                  quiz_attempts, student_answers, sess, results_pc, granted,
                  editor, quizzes_page, rls >>

\* the row of connection k is checked against the constraints and stored, or
\* the INSERT fails
insert_row(k) ==
  /\ codes.pending[k] # NoInsert
  /\ LET t == codes.pending[k].table
         code == codes.pending[k].code
     IN codes' = [codes EXCEPT
                    !.pending[k] = NoInsert,
                    ![t] = IF NotNullUnique(code, @) THEN Append(@, code) ELSE @]
  /\ UNCHANGED << now, quiz_sessions, quiz_session_groups, questions,
                  quiz_attempts, student_answers, sess, results_pc, granted,
                  editor, quizzes_page, rls >>

\* -------------------------------------------------------- Quizzes page
\* the Quizzes page with the "new quiz" dialog closed
PageClosed == [pc |-> "closed", selectedGroups |-> << >>, newQuiz |-> "none"]

\* only the Quizzes page changes
PageOnly ==
  UNCHANGED << now, quiz_sessions, quiz_session_groups, questions,
               quiz_attempts, student_answers, sess, results_pc, granted,
               editor, codes, rls >>

\* the "new quiz" dialog is opened
setNewQuizOpen ==
  /\ quizzes_page.pc = "closed"
  /\ quizzes_page' = [PageClosed EXCEPT !.pc = "form"]
  /\ PageOnly

\* the dialog is dismissed: the effect on newQuizOpen empties the selection
dismissNewQuiz ==
  /\ quizzes_page.pc = "form"
  /\ quizzes_page' = PageClosed
  /\ PageOnly

toggleGroupSelection(groupId) ==
  /\ quizzes_page.pc = "form"
  /\ quizzes_page' = [quizzes_page EXCEPT !.selectedGroups =
                        IF groupId \in Range(@)
                        THEN SelectSeq(@, LAMBDA g : g # groupId)
                        ELSE Append(@, groupId)]
  /\ PageOnly

\* the access codes of the rows of quiz_sessions
AccessCodes == [z \in DOMAIN quiz_sessions |-> quiz_sessions[z].access_code]

\* createQuiz up to the insert of the quiz: without a selected group a toast
\* only; the row gets its access code from the trigger; a failed insert
\* shows a toast
createQuiz(z, deadline, durationSeconds) ==
  /\ quizzes_page.pc = "form"
  /\ z \notin DOMAIN quiz_sessions
  /\ IF quizzes_page.selectedGroups = << >>
     THEN UNCHANGED << quiz_sessions, quizzes_page >>
     ELSE \E quizError \in BOOLEAN :
            IF quizError
            THEN UNCHANGED << quiz_sessions, quizzes_page >>
            ELSE \E code \in set_quiz_code("", AccessCodes) :
                   /\ quiz_sessions' =
                        [x \in DOMAIN quiz_sessions \cup {z} |->
                           IF x = z
                           THEN [access_code |-> code,
                                 group_id |-> quizzes_page.selectedGroups[1],
                                 deadline |-> deadline,
                                 duration_seconds |->
                                   IF durationSeconds = NULL THEN DefaultDuration
                                   ELSE durationSeconds]
                           ELSE quiz_sessions[x]]
                   /\ quizzes_page' = [quizzes_page EXCEPT !.pc = "groups",
                                                           !.newQuiz = z]
  /\ UNCHANGED << now, quiz_session_groups, questions, quiz_attempts,
                  student_answers, sess, results_pc, granted, editor, codes, rls >>

\* createQuiz from the insert of the group rows, whose error is logged only:
\* the toast 'Quiz created! Now add questions.' and the dialog closes
createQuiz_groups ==
  /\ quizzes_page.pc = "groups"
  /\ \E groupError \in BOOLEAN :
       quiz_session_groups' =
         IF groupError THEN quiz_session_groups
         ELSE quiz_session_groups \cup
                {<< quizzes_page.newQuiz, g >> : g \in Range(quizzes_page.selectedGroups)}
  /\ quizzes_page' = PageClosed
  /\ UNCHANGED << now, quiz_sessions, questions, quiz_attempts,
                  student_answers, sess, results_pc, granted, editor, codes, rls >>

\* ------------------------------------------------- row-level security
Teachers == {"TA", "TB"}
\* auth.uid(): a signed-in teacher, or nobody (a student's browser)
Users == Teachers \cup {"anon"}
OwnedQuizIds == {"Z1", "Z2"}
OwnedAttemptIds == {"t1", "t2"}

\* the policies on quiz_sessions and quiz_attempts created by the first
\* migration
InitialPolicies ==
  {"Teachers can view their quiz sessions",
   "Teachers can create quiz sessions",
   "Teachers can update their quiz sessions",
   "Teachers can delete their quiz sessions",
   "Anyone can view active quiz sessions by code",
   "Teachers can view attempts for their quizzes",
   "Anyone can create quiz attempts",
   "Anyone can update their quiz attempts",
   "Anyone can view quiz attempts"}

\* ensure_teacher_data_isolation: DROP POLICY IF EXISTS, then CREATE POLICY,
\* for the policies it names
TeacherDataIsolation(policies) ==
  LET named == {"Teachers can view their quiz sessions",
                "Teachers can create quiz sessions",
                "Teachers can update their quiz sessions",
                "Teachers can delete their quiz sessions",
                "Teachers can view attempts for their quizzes"}
  IN (policies \ named) \cup named

\* the policies in force after all migrations (the last two migrations are
\* about quiz_session_groups)
Policies == TeacherDataIsolation(InitialPolicies)

\* the policies FOR SELECT and FOR INSERT of a table
SelectPolicies(table) ==
  Policies \cap
    (IF table = "quiz_sessions"
     THEN {"Teachers can view their quiz sessions",
           "Anyone can view active quiz sessions by code"}
     ELSE {"Teachers can view attempts for their quizzes",
           "Anyone can view quiz attempts"})

InsertPolicies(table) ==
  Policies \cap
    (IF table = "quiz_sessions" THEN {"Teachers can create quiz sessions"}
     ELSE {"Anyone can create quiz attempts"})

\* the USING / WITH CHECK expression of a policy for user uid on a row
Using(policy, uid, row) ==
  CASE policy \in {"Teachers can view their quiz sessions",
                   "Teachers can create quiz sessions"} ->
         uid = row.teacher_id
    [] policy = "Teachers can view attempts for their quizzes" ->
         \E q \in rls.quiz_sessions :
           q.id = row.quiz_session_id /\ q.teacher_id = uid
    [] OTHER -> TRUE

\* permissive policies are combined with OR
Allowed(policies, uid, row) == \E policy \in policies : Using(policy, uid, row)

RlsOnly ==
  UNCHANGED << now, quiz_sessions, quiz_session_groups, questions,
               quiz_attempts, student_answers, sess, results_pc, granted,
               editor, quizzes_page, codes >>

\* a user signs in, or a student's browser connects
signIn(uid) ==
  /\ rls' = [rls EXCEPT !.uid = uid, !.from = "none", !.rows = {}]
  /\ RlsOnly

\* INSERT INTO quiz_sessions by the current user
insert_quiz_session(id, teacher_id) ==
  /\ \A q \in rls.quiz_sessions : q.id # id
  /\ LET row == [id |-> id, teacher_id |-> teacher_id]
     IN rls' = IF Allowed(InsertPolicies("quiz_sessions"), rls.uid, row)
               THEN [rls EXCEPT !.quiz_sessions = @ \cup {row}]
               ELSE rls
  /\ RlsOnly

\* INSERT INTO quiz_attempts by the current user
insert_quiz_attempt(id, quiz_session_id) ==
  /\ \A a \in rls.quiz_attempts : a.id # id
  /\ \E q \in rls.quiz_sessions : q.id = quiz_session_id
  /\ LET row == [id |-> id, quiz_session_id |-> quiz_session_id]
     IN rls' = IF Allowed(InsertPolicies("quiz_attempts"), rls.uid, row)
               THEN [rls EXCEPT !.quiz_attempts = @ \cup {row}]
               ELSE rls
  /\ RlsOnly

\* SELECT * FROM table by the current user, without a filter of the client
select_from(table) ==
  /\ rls' = [rls EXCEPT
               !.from = table,
               !.rows = {row \in rls[table] :
                           Allowed(SelectPolicies(table), rls.uid, row)}]
  /\ RlsOnly

\* ---------------------------------------------------------------- Init
\* attempts completed before the modelled run: S3 and S4 answered q1
\* correctly, S5 wrongly
EarlierAttempts ==
  LET row(st, sc, t) ==
        [quiz_session_id |-> "Z1", student_id |-> st, started_at |-> 0,
         completed_at |-> 0, score |-> sc, total_questions |-> 2,
         time_taken_seconds |-> t, ranking |-> NULL]
  IN << row("S3", 1, 2), row("S4", 1, 1), row("S5", 0, 1) >>

EarlierAnswers ==
  LET row(a, aid) == [attempt_id |-> a, question_id |-> "q1", answer_id |-> aid,
                      is_correct |-> AnswerIsCorrect(QuizQuestions[1], aid)]
  IN SetToBag({row(1, "a1"), row(2, "a1"), row(3, "a2")})

\* the editor and the Quizzes page are not open
InitOthers ==
  /\ editor = EditorClosed
  /\ quizzes_page = PageClosed
  /\ codes = [students |-> << >>, quiz_sessions |-> << >>,
              pending |-> [k \in Connections |-> NoInsert]]
  /\ rls = [uid |-> "anon", quiz_sessions |-> {}, quiz_attempts |-> {},
            from |-> "none", rows |-> {}]

\* what every run starts from: the quiz is open until its deadline, no browser
\* session is open
InitCommon ==
  /\ now = 0
  /\ quiz_sessions = [z \in Quizzes |->
       [access_code |-> "AZ1", group_id |-> "G1", deadline |-> MaxTime - 1,
        duration_seconds |-> QuizDuration]]
  /\ questions = [z \in Quizzes |-> QuizQuestions]
  /\ sess = [s \in Sessions |-> InitSession]
  /\ results_pc = "idle"
  /\ granted = << >>
  /\ InitOthers

\* the quiz was created for group G1; two or three students have completed it
Init ==
  /\ InitCommon
  /\ quiz_session_groups = {<< "Z1", "G1" >>}
  /\ \E n \in {2, 3} :
       /\ quiz_attempts = SubSeq(EarlierAttempts, 1, n)
       /\ student_answers =
            SetToBag({r \in BagToSet(EarlierAnswers) : r.attempt_id <= n})

\* the quiz has the legacy group_id only, or rows for both groups
InitConc ==
  /\ InitCommon
  /\ quiz_session_groups \in {{}, {<< "Z1", "G1" >>, << "Z1", "G2" >>}}
  /\ quiz_attempts = EarlierAttempts
  /\ student_answers = EarlierAnswers

SessionStep(s) ==
  \/ \E accessCode \in AccessCodeInputs, studentCode \in StudentCodeInputs[s] :
       loadQuiz(s, accessCode, studentCode)
  \/ loadQuiz_attempt(s)
  \/ loadQuiz_insert(s)
  \/ \E answerId \in {"a1", "a2", "b1", "b2"} : handleAnswer(s, answerId)
  \/ TimerTick(s)
  \/ nextQuestion(s)
  \/ handleTimeUp(s)
  \/ saveAnswer_insert(s)
  \/ saveAnswer_update(s)
  \/ nextQuestion_select(s)
  \/ finishQuiz_insert(s)
  \/ finishQuiz_select(s)
  \/ finishQuiz_update(s)
  \/ Close(s)

\* the teacher's edit dialog
EditStep ==
  \E z \in Quizzes, extendDeadline \in BOOLEAN, deadlineInput \in DeadlineInputs,
     toAdd \in ExtendInputs, durationSeconds \in DurationInputs :
    updateQuiz(z, extendDeadline, deadlineInput, toAdd, durationSeconds)

TeacherStep ==
  \/ EditStep
  \/ \E z \in Quizzes :
       \/ calculate_quiz_rankings(z)
       \/ loadResults(z)
       \/ loadResults_rpc(z)
       \/ loadResults_select(z)

\* the browser session of student S1 playing the quiz while the teacher edits
\* the quiz and the clock advances
Next == SessionStep("B2") \/ EditStep \/ ClockTick

Spec == Init /\ [][Next]_vars

\* a browser session that is opened and left alone until the countdown
\* submits it
WatchStep(s) ==
  \/ \E accessCode \in AccessCodeInputs, studentCode \in {"C1"} :
       loadQuiz(s, accessCode, studentCode)
  \/ loadQuiz_attempt(s)
  \/ loadQuiz_insert(s)
  \/ TimerTick(s)
  \/ handleTimeUp(s)
  \/ finishQuiz_select(s)
  \/ finishQuiz_update(s)
  \/ Close(s)

\* the teacher editing the quiz and looking at the results while student S1
\* takes the quiz without answering
NextRank == WatchStep("B2") \/ TeacherStep \/ ClockTick

SpecRank == Init /\ [][NextRank]_vars

\* a browser session that is opened and closed without being played
LoadStep(s) ==
  \/ \E accessCode \in AccessCodeInputs, studentCode \in StudentCodeInputs[s] :
       loadQuiz(s, accessCode, studentCode)
  \/ loadQuiz_attempt(s)
  \/ loadQuiz_insert(s)
  \/ Close(s)

\* what the browser and the database do by themselves in session s: the
\* interval callback fires and a pending database call completes
Fairness(s) ==
  /\ WF_vars(loadQuiz_attempt(s))
  /\ WF_vars(loadQuiz_insert(s))
  /\ WF_vars(TimerTick(s))
  /\ WF_vars(handleTimeUp(s))
  /\ WF_vars(finishQuiz_select(s))
  /\ WF_vars(finishQuiz_update(s))

\* two browser sessions of student S1 racing on the same quiz, both left alone
\* until the countdown submits them
NextConc == WatchStep("B1") \/ WatchStep("B2") \/ ClockTick

SpecConc == InitConc /\ [][NextConc]_vars /\ \A s \in Sessions : Fairness(s)

\* browser sessions that are opened and closed while the teacher changes the
\* deadline
NextLoad ==
  \/ \E s \in Sessions : LoadStep(s)
  \/ \E z \in Quizzes, extendDeadline \in BOOLEAN, deadlineInput \in DeadlineInputs,
        toAdd \in ExtendInputs, durationSeconds \in DurationInputs :
       updateQuiz(z, extendDeadline, deadlineInput, toAdd, durationSeconds)
  \/ ClockTick

SpecLoad == InitConc /\ [][NextLoad]_vars

\* a quiz that has been created for group G1 and has no questions yet
InitEdit ==
  /\ now = 0
  /\ quiz_sessions = [z \in Quizzes |->
       [access_code |-> "AZ1", group_id |-> "G1", deadline |-> MaxTime - 1,
        duration_seconds |-> QuizDuration]]
  /\ sess = [s \in Sessions |-> InitSession]
  /\ results_pc = "idle"
  /\ granted = << >>
  /\ InitOthers
  /\ quiz_session_groups = {<< "Z1", "G1" >>}
  /\ questions = [z \in Quizzes |-> << >>]
  /\ quiz_attempts = << >>
  /\ student_answers = EmptyBag

\* what the teacher may do to the questions in the editor: type a question
\* text, flip the "multiple answers" switch, type the text of one of the first
\* two answers, click one of the first three answers
QuestionStep ==
  \/ addQuestion
  \/ \E index \in 1..MaxEditorQuestions :
       \/ removeQuestion(index)
       \/ updateQuestion(index, "question_text", "t")
       \/ /\ index \in DOMAIN editor.questions
          /\ updateQuestion(index, "question_type",
                            IF editor.questions[index].question_type = "single"
                            THEN "multiple" ELSE "single")
       \/ \E aIndex \in 1..2 : updateAnswer(index, aIndex, "answer_text", "x")
       \/ \E aIndex \in 1..3 :
            /\ index \in DOMAIN editor.questions
            /\ aIndex \in DOMAIN editor.questions[index].answers
            /\ updateAnswer(index, aIndex, "is_correct",
                            IF editor.questions[index].question_type = "single"
                            THEN TRUE
                            ELSE ~editor.questions[index].answers[aIndex].is_correct)

\* the database calls of saveQuiz
SaveStep ==
  \/ saveQuiz_update
  \/ saveQuiz_groups_delete
  \/ saveQuiz_groups_insert
  \/ saveQuiz_select
  \/ saveQuiz_delete
  \/ saveQuiz_question
  \/ saveQuiz_answers

\* the teacher writing the questions of the quiz
NextEdit ==
  \/ \E z \in Quizzes : QuizEdit_loadQuiz(z)
  \/ QuestionStep
  \/ saveQuiz
  \/ SaveStep
  \/ QuizEdit_Close

SpecEdit == InitEdit /\ [][NextEdit]_vars

\* no quiz has been created yet
InitGroups ==
  /\ now = 0
  /\ quiz_sessions = << >>
  /\ quiz_session_groups = {}
  /\ questions = [z \in Quizzes |-> << >>]
  /\ quiz_attempts = << >>
  /\ student_answers = EmptyBag
  /\ sess = [s \in Sessions |-> InitSession]
  /\ results_pc = "idle"
  /\ granted = << >>
  /\ InitOthers

\* the teacher creating the quiz on the Quizzes page
PageStep ==
  \/ setNewQuizOpen
  \/ dismissNewQuiz
  \/ \E groupId \in Groups : toggleGroupSelection(groupId)
  \/ \E z \in Quizzes, deadline \in DeadlineInputs,
        durationSeconds \in DurationInputs \cup {NULL} :
       createQuiz(z, deadline, durationSeconds)
  \/ createQuiz_groups

\* the teacher creating a quiz and changing its groups in the editor
NextGroups ==
  \/ PageStep
  \/ \E z \in Quizzes : QuizEdit_loadQuiz(z)
  \/ \E groupId \in Groups : toggleGroup(groupId)
  \/ saveQuiz
  \/ saveQuiz_update
  \/ saveQuiz_groups_delete
  \/ saveQuiz_groups_insert
  \/ saveQuiz_select
  \/ saveQuiz_delete
  \/ QuizEdit_Close

SpecGroups == InitGroups /\ [][NextGroups]_vars

\* teachers and students' browsers inserting and reading under the policies
NextRls ==
  \/ \E uid \in Users : signIn(uid)
  \/ \E id \in OwnedQuizIds, teacher_id \in Teachers : insert_quiz_session(id, teacher_id)
  \/ \E id \in OwnedAttemptIds, quiz_session_id \in OwnedQuizIds :
       insert_quiz_attempt(id, quiz_session_id)
  \/ \E table \in {"quiz_sessions", "quiz_attempts"} : select_from(table)

SpecRls == Init /\ [][NextRls]_vars

\* a quiz with one question and no attempts, its duration unset (NULL or 0) or
\* set
InitTime ==
  /\ now = 0
  /\ \E d \in {NULL, 0, QuizDuration} :
       quiz_sessions = [z \in Quizzes |->
         [access_code |-> "AZ1", group_id |-> "G1", deadline |-> MaxTime - 1,
          duration_seconds |-> d]]
  /\ quiz_session_groups = {<< "Z1", "G1" >>}
  /\ questions = [z \in Quizzes |-> << QuizQuestions[1] >>]
  /\ quiz_attempts = << >>
  /\ student_answers = EmptyBag
  /\ sess = [s \in Sessions |-> InitSession]
  /\ results_pc = "idle"
  /\ granted = << >>
  /\ InitOthers

\* student S1 playing a one-question quiz against the countdown while the
\* teacher sets or clears the duration in the edit dialog
NextTime ==
  \/ \E accessCode \in AccessCodeInputs, studentCode \in StudentCodeInputs["B2"] :
       loadQuiz("B2", accessCode, studentCode)
  \/ loadQuiz_attempt("B2")
  \/ loadQuiz_insert("B2")
  \/ \E answerId \in {"a1", "a2"} : handleAnswer("B2", answerId)
  \/ TimerTick("B2")
  \/ nextQuestion("B2")
  \/ handleTimeUp("B2")
  \/ saveAnswer_insert("B2")
  \/ saveAnswer_update("B2")
  \/ finishQuiz_insert("B2")
  \/ finishQuiz_select("B2")
  \/ finishQuiz_update("B2")
  \/ Close("B2")
  \/ \E z \in Quizzes, deadlineInput \in DeadlineInputs,
        durationSeconds \in DurationInputs \cup {NULL} :
       updateQuiz(z, FALSE, deadlineInput, 0, durationSeconds)

SpecTime == InitTime /\ [][NextTime]_vars

\* two connections inserting students and quiz sessions
NextCodes ==
  \E k \in Connections :
    \/ \E t \in CodeTables : \E new_code \in SuppliedCodes[t] :
           trigger_set_code(k, t, new_code)
    \/ insert_row(k)

SpecCodes == Init /\ [][NextCodes]_vars

\* student S1 opening and playing the quiz, starting before it has a question,
\* while the teacher opens it once and writes and saves its first question
NextLive ==
  \/ loadQuiz("B2", "AZ1", "C1")
  \/ loadQuiz_attempt("B2")
  \/ loadQuiz_insert("B2")
  \/ \E n \in DOMAIN NewQuestionIds, j \in 1..2 :
       handleAnswer("B2", NewAnswerId(NewQuestionIds[n], j))
  \/ nextQuestion("B2")
  \/ saveAnswer_insert("B2")
  \/ saveAnswer_update("B2")
  \/ finishQuiz_insert("B2")
  \/ finishQuiz_select("B2")
  \/ finishQuiz_update("B2")
  \/ Close("B2")
  \/ \E z \in Quizzes : questions[z] = << >> /\ QuizEdit_loadQuiz(z)
  \/ addQuestion
  \/ updateQuestion(1, "question_text", "t")
  \/ \E aIndex \in 1..2 : updateAnswer(1, aIndex, "answer_text", "x")
  \/ updateAnswer(1, 1, "is_correct", TRUE)
  \/ saveQuiz
  \/ SaveStep
  \/ QuizEdit_Close

SpecLive == InitEdit /\ [][NextLive]_vars

\* the teacher filling in the title, the group and the first question, texts
\* of blanks included, and saving
NextValid ==
  \/ \E z \in Quizzes : QuizEdit_loadQuiz(z)
  \/ \E value \in {"", " ", "t"} : setQuizTitle(value)
  \/ toggleGroup("G1")
  \/ addQuestion
  \/ \E index \in 1..MaxEditorQuestions : removeQuestion(index)
  \/ \E value \in {" ", "t"} : updateQuestion(1, "question_text", value)
  \/ \E aIndex \in 1..2, value \in {" ", "x"} :
       updateAnswer(1, aIndex, "answer_text", value)
  \/ updateAnswer(1, 1, "is_correct", TRUE)
  \/ saveQuiz
  \/ SaveStep
  \/ QuizEdit_Close

SpecValid == InitEdit /\ [][NextValid]_vars

\* the teacher opening a quiz that students have taken, changing which answers
\* are correct, and saving it
NextResave ==
  \/ \E z \in Quizzes : QuizEdit_loadQuiz(z)
  \/ \E index \in DOMAIN QuizQuestions, aIndex \in 1..2 :
       /\ index \in DOMAIN editor.questions
       /\ updateAnswer(index, aIndex, "is_correct",
                       IF editor.questions[index].question_type = "single"
                       THEN TRUE
                       ELSE ~editor.questions[index].answers[aIndex].is_correct)
  \/ saveQuiz
  \/ SaveStep
  \/ QuizEdit_Close

SpecResave == Init /\ [][NextResave]_vars

\* ================================================================ claims

\* C1: whatever the interleaving of the loadQuiz executions of the browser
\* sessions, two sessions of one student included, quiz_attempts holds at most
\* one row for each (quiz_session_id, student_id) pair.
C1_OneAttemptPerPair ==
  \A i, j \in AttemptIds :
    /\ quiz_attempts[i].quiz_session_id = quiz_attempts[j].quiz_session_id
    /\ quiz_attempts[i].student_id = quiz_attempts[j].student_id
    => i = j

\* both sessions have loaded the quiz for student S1 after both found no
\* attempt: the insert of B1 was refused, the row is the one of B2
C1_Witness ==
  /\ sess["B1"].pc = "ready" /\ sess["B1"].student = "S1"
  /\ sess["B1"].attempt.id = 0
  /\ sess["B2"].student = "S1" /\ sess["B2"].attempt.id # 0
  /\ quiz_attempts[sess["B2"].attempt.id].student_id = "S1"

\* C2: once finishQuiz has completed an attempt, its persisted score is the
\* number of questions answered correctly: for a single-type question the
\* stored option is correct, for a multiple-type question the set of stored
\* options is the set of correct options.
StoredIds(i, qid) ==
  {r.answer_id : r \in {x \in BagToSet(student_answers) :
                          x.attempt_id = i /\ x.question_id = qid}}

AnsweredCorrectly(i, q) ==
  /\ StoredIds(i, q.id) # {}
  /\ IF q.question_type = "single"
     THEN StoredIds(i, q.id) \subseteq CorrectIds(q)
     ELSE StoredIds(i, q.id) = CorrectIds(q)

CorrectCount(i) ==
  LET qs == questions[quiz_attempts[i].quiz_session_id]
  IN Cardinality({k \in DOMAIN qs : AnsweredCorrectly(i, qs[k])})

C2_ScoreIsCorrectCount ==
  \A i \in AttemptIds :
    quiz_attempts[i].completed_at # NULL => quiz_attempts[i].score = CorrectCount(i)

\* C3: no (attempt_id, question_id, answer_id) triple is stored in more than
\* one row of student_answers.
C3_NoDuplicateAnswerRows ==
  \A r \in BagToSet(student_answers) : CopiesIn(r, student_answers) = 1

\* C4: an attempt has a non-null ranking only if the deadline of its quiz has
\* passed, whatever calculate_quiz_rankings, loadResults and updateQuiz have
\* done.
C4_RankingOnlyAfterDeadline ==
  \A i \in AttemptIds :
    quiz_attempts[i].ranking # NULL =>
      quiz_sessions[quiz_attempts[i].quiz_session_id].deadline <= now

\* a step of the ranking function for quiz z, called directly or by loadResults,
\* taken when the deadline of z has passed
RankingStep(z) ==
  /\ calculate_quiz_rankings(z) \/ (loadResults_rpc(z) /\ results_pc' = "select")
  /\ quiz_sessions[z].deadline # NULL
  /\ quiz_sessions[z].deadline <= now

CompletedOf(z) ==
  {i \in AttemptIds : /\ quiz_attempts[i].quiz_session_id = z
                       /\ quiz_attempts[i].completed_at # NULL}

RankedBetter(z) ==
  \A a, b \in CompletedOf(z) :
    /\ quiz_attempts[a].ranking # NULL
    /\ \/ quiz_attempts[b].ranking = NULL
       \/ quiz_attempts[b].ranking > quiz_attempts[a].ranking
    => \/ quiz_attempts[a].score > quiz_attempts[b].score
       \/ /\ quiz_attempts[a].score = quiz_attempts[b].score
          /\ quiz_attempts[a].time_taken_seconds <= quiz_attempts[b].time_taken_seconds

\* C5: right after calculate_quiz_rankings has run for a quiz whose deadline
\* has passed, a ranked completed attempt a and a completed attempt b with a
\* larger ranking or none satisfy score(a) > score(b), or equal scores and
\* time_taken_seconds(a) <= time_taken_seconds(b).
C5_RankingOrder ==
  [][\A z \in Quizzes : RankingStep(z) => RankedBetter(z)']_vars

\* four attempts are completed, the one of student S1 among the three ranked
C5_Witness ==
  /\ Cardinality(CompletedOf("Z1")) = 4
  /\ \E i \in CompletedOf("Z1") : /\ quiz_attempts[i].student_id = "S1"
                                  /\ quiz_attempts[i].ranking # NULL
  /\ \E i \in CompletedOf("Z1") : quiz_attempts[i].ranking = NULL

RankingsExact(z) ==
  LET C == CompletedOf(z)
      n == Min(TopRanks, Cardinality(C))
  IN /\ \A k \in 1..n :
          Cardinality({i \in C : quiz_attempts[i].ranking = k}) = 1
     /\ \A i \in AttemptIds :
          quiz_attempts[i].quiz_session_id = z =>
            /\ quiz_attempts[i].ranking \in (1..n) \cup {NULL}
            /\ i \notin C => quiz_attempts[i].ranking = NULL

\* C6: right after calculate_quiz_rankings has run for a quiz whose deadline
\* has passed, the non-null rankings of its attempts are exactly
\* 1..min(3, number of completed attempts), each held by one attempt, and
\* every uncompleted attempt has ranking null.
C6_RankingsExact ==
  [][\A z \in Quizzes : RankingStep(z) => RankingsExact(z)']_vars

\* two attempts are ranked 1 and 2 while the attempt of S1 is uncompleted and
\* unranked
C6_Witness ==
  /\ Cardinality(CompletedOf("Z1")) = 2
  /\ \A i \in CompletedOf("Z1") : quiz_attempts[i].ranking \in {1, 2}
  /\ \E i \in AttemptIds : /\ quiz_attempts[i].student_id = "S1"
                           /\ quiz_attempts[i].completed_at = NULL
                           /\ quiz_attempts[i].ranking = NULL

\* the URL parameters name an open quiz and a student of a group assigned to it
Permitted(accessCode, studentCode) ==
  /\ accessCode # "" /\ studentCode # ""
  /\ \E z \in Quizzes, x \in DOMAIN students :
       /\ quiz_sessions[z].access_code = accessCode
       /\ quiz_sessions[z].deadline >= now
       /\ students[x].student_code = studentCode
       /\ \/ << z, students[x].group_id >> \in quiz_session_groups
          \/ students[x].group_id = quiz_sessions[z].group_id

TablesUnchanged ==
  /\ quiz_attempts' = quiz_attempts
  /\ student_answers' = student_answers

\* C7: loadQuiz goes on to create or resume an attempt only when the access
\* code resolves to a quiz whose deadline has not passed, the student code
\* resolves to a student, and the student's group is assigned to the quiz by
\* a quiz_session_groups row or the legacy group_id; otherwise it navigates
\* home and leaves quiz_attempts and student_answers unchanged.  The two
\* tables are written only by sessions that have passed these checks.
C7_LoadQuizChecks ==
  [][/\ \A s \in Sessions :
         sess[s].pc \in {"closed", "home"} /\ sess'[s] # sess[s] =>
           \A accessCode \in AccessCodeInputs, studentCode \in StudentCodeInputs[s] :
             loadQuiz(s, accessCode, studentCode) =>
               IF Permitted(accessCode, studentCode)
               THEN /\ sess'[s].pc = "lq_attempt"
                    /\ students[sess'[s].student].student_code = studentCode
                    /\ quiz_sessions[sess'[s].quiz.id].access_code = accessCode
               ELSE sess'[s].pc = "home" /\ TablesUnchanged
     /\ ~TablesUnchanged =>
          \E s \in Sessions : /\ sess[s].pc \notin {"closed", "home"}
                              /\ sess'[s] # sess[s]]_vars

\* B1 was sent home while B2 was admitted
C7_Witness ==
  /\ sess["B1"].pc = "home"
  /\ sess["B2"].pc = "ready"
  /\ quiz_session_groups = {}

\* C8: when loadQuiz has passed its checks for a (quiz, student) pair: if it
\* finds an uncompleted attempt of the pair it reuses it and inserts no row;
\* if it finds none it inserts exactly one row, with completed_at null and
\* total_questions the number of questions of the quiz.
C8_ReuseOrInsertOne ==
  [][\A s \in Sessions :
       LET r == sess[s]
           found == MaybeSingleAttempt(r.quiz.id, r.student)
           new == quiz_attempts'[Len(quiz_attempts')]
       IN /\ loadQuiz_attempt(s) /\ found.id # 0 /\ found.completed_at = NULL
             => /\ sess'[s].attempt.id = found.id
                /\ Len(quiz_attempts') = Len(quiz_attempts)
          /\ loadQuiz_insert(s)
             => /\ Len(quiz_attempts') = Len(quiz_attempts) + 1
                /\ new.quiz_session_id = r.quiz.id
                /\ new.student_id = r.student
                /\ new.completed_at = NULL
                /\ new.total_questions = Len(questions[r.quiz.id])
                /\ sess'[s].attempt.id = Len(quiz_attempts')]_vars

\* C9: when loadQuiz finds the attempt of the pair completed, the session
\* shows the finished state with the stored score and starts no countdown;
\* a session in the finished state writes neither quiz_attempts nor
\* student_answers, also after the teacher has extended the deadline.
C9_CompletedAttemptIsFinal ==
  [][\A s \in Sessions :
       LET r == sess[s]
           found == MaybeSingleAttempt(r.quiz.id, r.student)
       IN /\ loadQuiz_attempt(s) /\ found.id # 0 /\ found.completed_at # NULL
             => /\ sess'[s].pc = "finished"
                /\ sess'[s].finished
                /\ sess'[s].score = found.score
                /\ sess'[s].timeRemaining = NULL
                /\ ~sess'[s].timerIntervalRef
                /\ TablesUnchanged
          /\ r.pc = "finished" /\ sess'[s] # r
             => /\ sess'[s].pc = "closed"
                /\ TablesUnchanged]_vars

\* the session was opened after its attempt had been completed and the
\* teacher had extended the deadline
C9_Witness ==
  /\ sess["B2"].pc = "finished"
  /\ sess["B2"].attempt.id # 0
  /\ sess["B2"].startTimeRef > quiz_attempts[sess["B2"].attempt.id].completed_at
  /\ quiz_sessions["Z1"].deadline > now

\* a step of nextQuestion that has saved, or skipped saving, the answer
NextQuestionMoves(s) ==
  \/ nextQuestion(s) /\ sess'[s].pc # "sa_insert"
  \/ saveAnswer_update(s) /\ sess[s].h.kind = "next"

CountdownStarted(s) ==
  /\ sess[s].pc = "ready"
  /\ sess[s].timeRemaining # NULL

\* session s shows the finished state and its attempt is stored as completed
Submitted(s) ==
  /\ sess[s].pc = "finished"
  /\ sess[s].finished
  /\ sess[s].attempt.id # 0
  /\ quiz_attempts[sess[s].attempt.id].completed_at # NULL

\* C11: with the interval callback firing and pending database calls
\* completing, every session whose countdown was started reaches, unless the
\* tab is closed, the finished state with completed_at stored on its attempt,
\* whether or not the student selects an answer or presses the button.
C11_CountdownEndsSubmitted ==
  \A s \in Sessions :
    CountdownStarted(s) ~> (Submitted(s) \/ sess[s].pc = "closed")

\* C12: the countdown seconds granted to an attempt, over all the sessions
\* that loaded or reloaded it, never exceed the duration of its quiz.
C12_GrantedWithinDuration ==
  \A a \in DOMAIN granted :
    granted[a] <= DurationOf(quiz_sessions[quiz_attempts[a].quiz_session_id])

\* C17: when the countdown expires while options are selected for the
\* current question and that question has not been saved, the attempt is
\* marked completed only with these options stored in student_answers and,
\* when they are the correct answer, counted in the score.
C17_ExpiryStoresSelection ==
  [][\A s \in Sessions :
       LET r == sess[s]
       IN /\ finishQuiz_update(s)
          /\ r.h.kind = "timeup"
          /\ Len(r.selectedAnswers) > 0
          /\ HasCurrentQ(r)
          /\ CurrentQ(r).id \notin r.h.savedQuestionIds
          => /\ \A i \in DOMAIN r.selectedAnswers :
                  r.selectedAnswers[i] \in StoredIds(r.attempt.id, CurrentQ(r).id)
             /\ IsCorrect(CurrentQ(r), r.selectedAnswers)
                  => quiz_attempts'[r.attempt.id].score > 0]_vars

\* C18: once completed_at of an attempt is set, no step changes its score,
\* completed_at or time_taken_seconds.
C18_CompletedAttemptFrozen ==
  [][\A i \in AttemptIds :
       quiz_attempts[i].completed_at # NULL
       => /\ quiz_attempts'[i].score = quiz_attempts[i].score
          /\ quiz_attempts'[i].completed_at = quiz_attempts[i].completed_at
          /\ quiz_attempts'[i].time_taken_seconds =
               quiz_attempts[i].time_taken_seconds]_vars

\* C19: when loadQuiz resumes an uncompleted attempt, the score it shows is
\* the number of questions whose stored answers are correct.
C19_ResumedScoreIsCorrectCount ==
  [][\A s \in Sessions :
       loadQuiz_attempt(s) /\ sess'[s].pc = "ready"
       => sess'[s].score = CorrectCount(sess'[s].attempt.id)]_vars

\* loadResults is at the read of the attempts
AtSelect(pc) == pc \in {"select", "select_after_error"}

SaveQuizSucceeds ==
  /\ saveQuiz_delete \/ saveQuiz_answers
  /\ editor'.pc = "closed"

CorrectRows(q) == {j \in DOMAIN q.answers : q.answers[j].is_correct}

\* C13: after a saveQuiz that succeeds, every stored question of the quiz with
\* question_type 'single' has exactly one answer row with is_correct true
C13_SingleHasOneCorrect ==
  [][SaveQuizSucceeds =>
       \A z \in DOMAIN questions' : \A k \in DOMAIN questions'[z] :
         questions'[z][k].question_type = "single"
           => Cardinality(CorrectRows(questions'[z][k])) = 1]_vars

\* C16: every student_code and every access_code stored is non-empty, and no
\* two rows of students share a student_code, no two rows of quiz_sessions an
\* access_code, whatever was inserted, with or without a code
C16_CodesUnique ==
  \A t \in CodeTables :
    /\ \A i \in DOMAIN codes[t] : codes[t][i] # "" /\ codes[t][i] # NullCode
    /\ \A i, j \in DOMAIN codes[t] : codes[t][i] = codes[t][j] => i = j

\* both tables are full: each holds a code that only the generator gives
C16_Witness ==
  /\ Range(codes.quiz_sessions) = QuizCodes
  /\ Range(codes.students) = StudentCodes

\* a step that ends saveQuiz, with the toast of success or of failure
SaveQuizEnds ==
  /\ SaveStep
  /\ editor'.pc \in {"edit", "closed"}

\* C14: when createQuiz reports success, and when a saveQuiz ends, whether it
\* succeeded or failed part-way, every quiz has at least one row in
\* quiz_session_groups
C14_QuizHasGroups ==
  [][createQuiz_groups \/ SaveQuizEnds =>
       \A z \in DOMAIN quiz_sessions' :
         \E g \in Groups : << z, g >> \in quiz_session_groups']_vars

\* C15: the rows a signed-in teacher gets from a SELECT on quiz_sessions are
\* that teacher's quiz sessions, and the rows from a SELECT on quiz_attempts
\* are attempts on that teacher's quiz sessions
C15_TeacherSeesOwnRows ==
  rls.uid \in Teachers =>
    /\ rls.from = "quiz_sessions" =>
         \A row \in rls.rows : row.teacher_id = rls.uid
    /\ rls.from = "quiz_attempts" =>
         \A row \in rls.rows :
           \E q \in rls.quiz_sessions :
             q.id = row.quiz_session_id /\ q.teacher_id = rls.uid

\* the attempts are as a call of calculate_quiz_rankings on quiz z leaves them
JustRanked(z) == quiz_attempts \in RankingOutcomes(z)

\* C21: a call of calculate_quiz_rankings on a quiz whose attempts are as a
\* call of the function left them, the deadline passed, changes the ranking
\* and the time_taken_seconds of no attempt
C21_RankingIdempotent ==
  [][\A z \in Quizzes :
       RankingStep(z) /\ JustRanked(z) =>
         \A i \in DOMAIN quiz_attempts :
           /\ quiz_attempts'[i].ranking = quiz_attempts[i].ranking
           /\ quiz_attempts'[i].time_taken_seconds =
                quiz_attempts[i].time_taken_seconds]_vars

C23_ScoreWithinTotal ==
  \A i \in DOMAIN quiz_attempts :
    LET a == quiz_attempts[i]
    IN a.score # NULL =>
         /\ a.total_questions # NULL
         /\ 0 <= a.score
         /\ a.score <= a.total_questions

\* the tables of the database
Stored ==
  << quiz_sessions, quiz_session_groups, questions, quiz_attempts, student_answers >>

\* a text that is empty or consists of blanks
Blank(t) == t \in {"", " "}

\* the editor holds what the claim names: a blank title, no selected group, or
\* a question with a blank text, fewer than two non-blank answers or no answer
\* marked correct
InvalidInput ==
  \/ Blank(editor.quizTitle)
  \/ editor.selectedGroups = {}
  \/ \E k \in DOMAIN editor.questions :
       LET q == editor.questions[k]
       IN \/ Blank(q.question_text)
          \/ Cardinality({j \in DOMAIN q.answers : ~Blank(q.answers[j].answer_text)}) < 2
          \/ \A j \in DOMAIN q.answers : ~q.answers[j].is_correct

\* C24: saveQuiz called on such an input changes no table and starts no
\* database call, and no step of the editor that writes to a table is taken
\* on such an input
C24_NoWriteWhenInvalid ==
  [][/\ (saveQuiz /\ InvalidInput => editor'.pc = "edit" /\ UNCHANGED Stored)
     /\ (Stored' # Stored => ~InvalidInput)]_vars

\* saveQuiz has refused an input and the tables hold questions saved earlier
C24_Witness ==
  /\ InvalidInput
  /\ editor.pc = "edit"
  /\ editor.toast.text \in {"Quiz title is required",
                             "Please select at least one group",
                             "Question is empty",
                             "Question needs at least 2 answers",
                             "Question needs at least one correct answer"}
  /\ \E z \in Quizzes : questions[z] # << >>

\* a database call of saveQuiz fails and saveQuiz gives up
SaveQuizFails == SaveStep /\ editor.pc \notin {"edit", "closed"} /\ editor'.pc = "edit"

\* C25: when saveQuiz fails at a step after its validation, the quiz's stored
\* group assignments and its stored questions with their answers are the ones
\* stored when saveQuiz was called
C25_FailedSaveChangesNothing ==
  [][SaveQuizFails =>
       /\ Snapshot(editor.quizId)'.groups = editor.before.groups
       /\ Snapshot(editor.quizId)'.questions = editor.before.questions]_vars

\* C26: after a successful saveQuiz every quiz_attempts row and every
\* student_answers row that was stored when saveQuiz was called is still
\* stored with the same values
C26_ResultsKept ==
  [][SaveQuizSucceeds =>
       /\ \A i \in DOMAIN editor.before.quiz_attempts :
            /\ i \in DOMAIN quiz_attempts'
            /\ quiz_attempts'[i] = editor.before.quiz_attempts[i]
       /\ editor.before.student_answers \sqsubseteq student_answers']_vars

\* what saveQuiz is to store of editor question q: its text, its type and its
\* non-blank answers in editor order
SavedQuestion(q) ==
  LET NonBlank(a) == ~Blank(a.answer_text)
      kept == SelectSeq(q.answers, NonBlank)
  IN [question_text |-> q.question_text, question_type |-> q.question_type,
      answers |-> [j \in DOMAIN kept |->
                     [answer_text |-> kept[j].answer_text,
                      is_correct |-> kept[j].is_correct]]]

\* the stored question row holds saved question sq, its answers numbered
\* 0..m-1 in order
StoredAs(row, sq) ==
  /\ row.question_text = sq.question_text
  /\ row.question_type = sq.question_type
  /\ Len(row.answers) = Len(sq.answers)
  /\ \A j \in DOMAIN sq.answers :
       \E a \in Range(row.answers) :
         /\ a.order_index = j - 1
         /\ a.answer_text = sq.answers[j].answer_text
         /\ a.is_correct = sq.answers[j].is_correct

\* C27: after a successful saveQuiz the stored questions of the quiz are the
\* editor's questions numbered 0..n-1 in editor order, each with exactly its
\* non-blank answers numbered 0..m-1 in editor order, and the editor's
\* loadQuiz returns the sequence that was saved
C27_SaveLoadRoundTrip ==
  [][SaveQuizSucceeds =>
       LET stored == questions'[editor.quizId]
           saved == [k \in DOMAIN editor.questions |->
                       SavedQuestion(editor.questions[k])]
       IN /\ Len(stored) = Len(saved)
          /\ \A k \in DOMAIN saved :
               \E row \in Range(stored) :
                 row.order_index = k - 1 /\ StoredAs(row, saved[k])
          /\ \A questionsData \in OrderedBy(stored) :
               [k \in DOMAIN questionsData |-> FormatQuestion(questionsData[k])]
                 = saved]_vars

====
